---------------------------- MODULE Spec2Model ----------------------------
(***************************************************************************)
(* PrescriptionValidation: the circom circuit (prescription.circom), the   *)
(* scenario runner (prove.js), the trusted setup (ceremony.js) and the     *)
(* Groth16 oracles they consume.                                           *)
(*                                                                         *)
(* Scale.  The circuit computes over the BN128 scalar field and compares   *)
(* with LessThan(32).  TLC has machine integers, so the field is the prime *)
(* field of order P and the comparator has NBits bits, with                *)
(* 2^(NBits+1) < P as circomlib requires of LessThan (n <= 252 < 254).     *)
(* Identifiers of the harness (doctor 123, secret 456, source 1, ...) are  *)
(* small field elements.  Everything else follows the source line by line. *)
(***************************************************************************)
EXTENDS Integers, Sequences, FiniteSets, TLC

\* ------------------------------------------------------------------ scale
P == 13                 \* order of the scalar field (bn128 in the source)
NBits == 2              \* width of the freshness comparator (32 in the source)

\* ----------------------------------------------------------------- bounds
MaxSecret == 2          \* doctorSecret ranges over 1..MaxSecret
MaxSource == 2          \* sourceId ranges over 1..MaxSource
MaxAction == 2          \* authorizedAction ranges over 1..MaxAction
MaxClass == 2           \* allergyClassId, medicationClassId range over 1..MaxClass
MaxOutcome == 2         \* the declared outcome ranges over 0..MaxOutcome
MaxBlind == 1           \* the prover's blinding randomness ranges over 1..MaxBlind
MaxTau == 2             \* the ceremony's toxic waste ranges over 1..MaxTau
MaxDigit == 1           \* the digits of a tampered string range over 0..MaxDigit
MaxLen == 7             \* and its length over 0..MaxLen

\* -------------------------------------------------- harness baseline (prove.js)
RegDoctorId == 1        \* H(123, 456): the registered doctor
RegDoctorSecret == 1
TrustedSourceId == 1    \* H(1): the hospital
RequiredAction == 1     \* requiredAction: "1"

\* ------------------------------------------------------ field arithmetic
Field == 0 .. (P - 1)

Add(a, b) == (a + b) % P
Sub(a, b) == (a - b + P) % P
Mul(a, b) == (a * b) % P

RECURSIVE Pow(_, _)
Pow(a, k) == IF k = 0 THEN 1 ELSE Mul(a, Pow(a, k - 1))

\* 1 / a in the field (Fermat); circom's division of field elements
Inv(a) == Pow(a, P - 2)

RECURSIVE TwoTo(_)
TwoTo(k) == IF k = 0 THEN 1 ELSE 2 * TwoTo(k - 1)

\* ---------------------------------------------------- consumed gadgets
\* Poseidon: additions of round constants, the S-box x^5 and a linear mix,
\* reduced to two rounds; out is the first state element.
SBox(x) == (x * x * x * x * x) % P

PoseidonMix(s) ==
    << Add(Add(Mul(2, s[1]), s[2]), s[3]),
       Add(Add(s[1], Mul(2, s[2])), s[3]),
       Add(Add(s[1], s[2]), Mul(3, s[3])) >>

PoseidonRound(s, c) ==
    PoseidonMix(<< SBox(Add(s[1], c)), SBox(Add(s[2], c + 1)), SBox(Add(s[3], c + 2)) >>)

Poseidon2Table == [ a \in Field, b \in Field |-> PoseidonRound(PoseidonRound(<<0, a, b>>, 1), 4)[1] ]
Poseidon2(a, b) == Poseidon2Table[a, b]

Poseidon1Table == [ a \in Field |-> PoseidonRound(PoseidonRound(<<0, a, 0>>, 7), 10)[1] ]
Poseidon1(a) == Poseidon1Table[a]

\* circomlib LessThan(n): Num2Bits(n+1) of in[0] + 2^n - in[1]; out is
\* 1 - bit n.  ok is Num2Bits' own constraint lc1 === in: the sum has to
\* fit n+1 bits.  The operands themselves are not decomposed.
LessThan(n, in0, in1) ==
    LET x == Sub(Add(in0, TwoTo(n)), in1)
    IN  [ ok  |-> x < TwoTo(n + 1),
          out |-> 1 - ((x \div TwoTo(n)) % 2) ]


\* ------------------------------------------------ the signal model
PrivateSignals ==
    << "doctorId", "doctorSecret", "authorizedAction", "sourceId",
       "dataAge", "allergyClassId", "medicationClassId" >>

\* (mutant) deltaMax and outcome listed in the other order
PublicSignalOrderSwapped ==
    << "doctorCredentialHash", "trustedSourceHash", "requiredAction",
       "outcome", "deltaMax" >>

\* (mutant) dataAge declared public in the place of deltaMax
PublicSignalOrderLeaky ==
    << "doctorCredentialHash", "trustedSourceHash", "requiredAction",
       "dataAge", "outcome" >>

\* component main {public [...]}: the order of the public input vector
PublicSignalOrder ==
    << "doctorCredentialHash", "trustedSourceHash", "requiredAction",
       "deltaMax", "outcome" >>

nPublic == Len(PublicSignalOrder)

\* ------------------------------------- PrescriptionValidation, by line
\* CHECK 1: credHasher = Poseidon(2)
credHasher(in) == Poseidon2(in.doctorId, in.doctorSecret)

\* CHECK 2: srcHasher = Poseidon(1)
srcHasher(in) == Poseidon1(in.sourceId)

\* (mutant) the comparator wired in[0] <== deltaMax; in[1] <== dataAge
freshCheckSwapped(in) == LessThan(NBits, in.deltaMax, in.dataAge)

\* CHECK 3: freshCheck = LessThan(32); in[0] <== dataAge; in[1] <== deltaMax
freshCheck(in) == LessThan(NBits, in.dataAge, in.deltaMax)

\* CHECK 4: authOk <== authorizedAction - requiredAction
authOkOf(in) == Sub(in.authorizedAction, in.requiredAction)

\* CHECK 5: classDiff <== allergyClassId - medicationClassId
classDiffOf(in) == Sub(in.allergyClassId, in.medicationClassId)

\* (mutant) the hint left at 0, the inverse never computed
classDiffInvHintZero(d) == 0

\* classDiffInv <-- (classDiff == 0) ? 0 : (1 / classDiff): computed by the
\* witness builder, constrained by nothing on its own
classDiffInvHint(d) == IF d = 0 THEN 0 ELSE Inv(d)

\* isZero <== 1 - (classDiff * classDiffInv)
isZeroOf(d, inv) == Sub(1, Mul(d, inv))

\* (mutant) noContraindication <== isZero
noContraindicationIsZero(z) == z

\* noContraindication <== 1 - isZero
noContraindicationOf(z) == Sub(1, z)

\* (mutant) computedOutcome <== noContraindication, validCtx left out
computedOutcomeNoCtx(validCtx, noC) == noC

\* validCtx <== freshOk; computedOutcome <== validCtx * noContraindication
computedOutcomeOf(validCtx, noC) == Mul(validCtx, noC)

\* Every signal of the template for the inputs `in` and the hint `inv`.
Signals(in, inv) ==
    LET lt   == freshCheck(in)
        d    == classDiffOf(in)
        z    == isZeroOf(d, inv)
        noC  == noContraindicationOf(z)
    IN  [ in                 |-> in,
          credOut            |-> credHasher(in),
          srcOut             |-> srcHasher(in),
          n2bOk              |-> lt.ok,
          freshOk            |-> lt.out,
          authOk             |-> authOkOf(in),
          classDiff          |-> d,
          classDiffInv       |-> inv,
          isZero             |-> z,
          noContraindication |-> noC,
          validCtx           |-> lt.out,
          computedOutcome    |-> computedOutcomeOf(lt.out, noC) ]

\* (mutants) a constraint left out of the circuit
Constraint110Dropped(w) == TRUE
Constraint132Dropped(w) == TRUE
Constraint157Dropped(w) == TRUE

\* The === constraints, each under the number of its line in the circuit.
Constraint76(w)  == w.credOut = w.in.doctorCredentialHash
Constraint87(w)  == w.srcOut = w.in.trustedSourceHash
ConstraintNum2Bits(w) == w.n2bOk
Constraint110(w) == w.authOk = 0
Constraint132(w) == Mul(w.classDiff, w.isZero) = 0
Constraint157(w) == w.computedOutcome = w.in.outcome

\* The first assertion that fails, in the order the witness builder meets
\* them; "none" for a satisfying assignment.
FirstFailure(w) ==
    IF      ~Constraint76(w)       THEN "line 76"
    ELSE IF ~Constraint87(w)       THEN "line 87"
    ELSE IF ~ConstraintNum2Bits(w) THEN "Num2Bits"
    ELSE IF ~Constraint110(w)      THEN "line 110"
    ELSE IF ~Constraint132(w)      THEN "line 132"
    ELSE IF ~Constraint157(w)      THEN "line 157"
    ELSE "none"

Satisfies(w) == FirstFailure(w) = "none"

\* The public input vector of a witness: the public signals in their order.
PublicSignals(w) == [ i \in 1 .. nPublic |-> w.in[PublicSignalOrder[i]] ]

\* ------------------------------------------------- the Groth16 oracles
\* Group elements are written by their discrete logarithms (exponents in
\* the group of order P), so the pairing check is an equation in the field.
NonZero(x) == (x % (P - 1)) + 1

\* ceremony.js, phase 2: the key material of a setup with toxic waste t.
\* IC has one entry per public signal plus the constant term IC[0].
Setup(t) ==
    [ alpha |-> NonZero(2 * t + 1),
      beta  |-> NonZero(3 * t + 2),
      gamma |-> NonZero(5 * t + 3),
      delta |-> NonZero(7 * t + 4),
      IC    |-> [ k \in 0 .. nPublic |-> NonZero(t * (k + 2) + k) ] ]

\* cpub = IC[0] + sum of publicSignals[i] * IC[i]
RECURSIVE CpubUpTo(_, _, _)
CpubUpTo(vk, pub, k) ==
    IF k = 0 THEN vk.IC[0]
    ELSE Add(CpubUpTo(vk, pub, k - 1), Mul(pub[k], vk.IC[k]))

\* (mutants) the last public signal, or the constant term, left out of cpub
CpubDropLast(vk, pub) == CpubUpTo(vk, pub, Len(pub) - 1)
CpubNoConstant(vk, pub) == Sub(CpubUpTo(vk, pub, Len(pub)), vk.IC[0])

Cpub(vk, pub) == CpubUpTo(vk, pub, Len(pub))

\* groth16.prove: pi_a, pi_b blinded by the prover's randomness, pi_c the
\* element that closes the pairing equation for this key and this vector.
Groth16Prove(zkey, pub, b) ==
    LET A == NonZero(b)
        B == NonZero(b + 1)
    IN  [ pi_a |-> A,
          pi_b |-> B,
          pi_c |-> Mul(Sub(Sub(Mul(A, B), Mul(zkey.alpha, zkey.beta)),
                           Mul(Cpub(zkey, pub), zkey.gamma)),
                       Inv(zkey.delta)) ]

\* groth16.verify: the public inputs are field elements, and
\* e(pi_a, pi_b) = e(alpha, beta) * e(cpub, gamma) * e(pi_c, delta)
Groth16Verify(vk, pub, proof) ==
    /\ \A i \in 1 .. Len(pub) : pub[i] \in Field
    /\ Mul(proof.pi_a, proof.pi_b) =
         Add(Add(Mul(vk.alpha, vk.beta), Mul(Cpub(vk, pub), vk.gamma)),
             Mul(proof.pi_c, vk.delta))

\* ---------------------------------------------------------------- state
VARIABLES
    pc,         \* "idle", "failed", "proved", "verified", "probed"
    input,      \* the signal assignment handed to tryProve
    prover,     \* "builder": the wasm witness builder; "adversary": a prover
                \* who fills classDiffInv with a value of his own
    wit,        \* the witness, when one was constructed
    r,          \* what tryProve returned: {ok, proof, publicSignals} or {ok, error}
    vKey,       \* verification_key.json
    verifyOk,   \* what groth16.verify returned for r
    probe,      \* a re-verification of r.proof: tampered vector or altered key
    \* prove.js, main: the scenario runner
    hpc,        \* << scenario, phase >>: where main is
    oracle,     \* the build artifacts main loads: their kind and the zkey
    heap,       \* the arrays and objects main shares by reference
    loc,        \* the locals of the scenario block: r, verifyOk
    passed,     \* let passed
    report,     \* const report
    proofCache, \* const proofCache
    calls,      \* the calls of snarkjs.groth16.verify made so far
    printed,    \* what printResult and the summary printed
    \* the two tampering expressions of S6 and S7, on their own
    bench,
    \* ceremony.js, main
    cpc,        \* the step main is about to perform
    lines,      \* const lines: the log
    files,      \* the files on disk, each with the run that produced it
    cer,        \* main's locals: ptauValid, zkeyValid, proof, isValid, ...
    trace       \* the steps performed so far, in order

proveVars    == << pc, input, prover, wit, r, vKey, verifyOk, probe >>
harnessVars  == << hpc, oracle, heap, loc, passed, report, proofCache, calls, printed >>
ceremonyVars == << cpc, lines, files, cer, trace >>

vars == << proveVars, harnessVars, bench, ceremonyVars >>

None == [ none |-> TRUE ]

\* The parts of the state a run of another program leaves alone.
HarnessOff ==
    /\ hpc = << "off", "off" >>
    /\ oracle = None
    /\ heap = None
    /\ loc = None
    /\ passed = 0
    /\ report = << >>
    /\ proofCache = None
    /\ calls = << >>
    /\ printed = << >>

BenchOff == bench = None

CeremonyOff ==
    /\ cpc = "off"
    /\ lines = << >>
    /\ files = None
    /\ cer = None
    /\ trace = << >>

\* prove.js: credHash = H(123, 456), srcHash = H(1)
credHash == Poseidon2(RegDoctorId, RegDoctorSecret)
srcHash  == Poseidon1(TrustedSourceId)

InWidth(x) == x < TwoTo(NBits)

\* The assignments the scenarios are drawn from.  The doctor, the public
\* commitments and the policy are the baseline's; dataAge is any field
\* element, and deltaMax is any value of the comparator's width or the
\* field's largest.
Inputs ==
    [ doctorId             : { RegDoctorId },
      doctorSecret         : 1 .. MaxSecret,
      authorizedAction     : 1 .. MaxAction,
      sourceId             : 1 .. MaxSource,
      dataAge              : Field,
      allergyClassId       : 1 .. MaxClass,
      medicationClassId    : 1 .. MaxClass,
      doctorCredentialHash : { credHash },
      trustedSourceHash    : { srcHash },
      requiredAction       : { RequiredAction },
      deltaMax             : (0 .. (TwoTo(NBits) - 1)) \cup { P - 1 },
      outcome              : 0 .. MaxOutcome ]

\* The assignments whose comparator operands have the declared width.
WidthInputs == { in \in Inputs : InWidth(in.dataAge) /\ InWidth(in.deltaMax) }

Init ==
    /\ pc = "idle"
    /\ input = None
    /\ prover = "builder"
    /\ wit = None
    /\ r = None
    /\ vKey = Setup(1)
    /\ verifyOk = FALSE
    /\ probe = None
    /\ HarnessOff /\ BenchOff /\ CeremonyOff

\* The binding probes start from any ceremony's key.
InitBind ==
    /\ pc = "idle"
    /\ input = None
    /\ prover = "builder"
    /\ wit = None
    /\ r = None
    /\ vKey \in { Setup(t) : t \in 1 .. MaxTau }
    /\ verifyOk = FALSE
    /\ probe = None
    /\ HarnessOff /\ BenchOff /\ CeremonyOff

\* groth16.fullProve on the signals w: the witness builder's assertions,
\* then the proof, blinded by fresh randomness, for the zkey of the same
\* setup as vKey.
FullProve(in, who, w) ==
    /\ input' = in
    /\ prover' = who
    /\ IF Satisfies(w)
       THEN /\ wit' = w
            /\ \E b \in 1 .. MaxBlind :
                  r' = [ ok            |-> TRUE,
                         proof         |-> Groth16Prove(vKey, PublicSignals(w), b),
                         publicSignals |-> PublicSignals(w) ]
            /\ pc' = "proved"
       ELSE /\ wit' = None
            /\ r' = [ ok |-> FALSE, error |-> FirstFailure(w) ]
            /\ pc' = "failed"
    /\ UNCHANGED << vKey, verifyOk, probe >>
    /\ UNCHANGED << harnessVars, bench, ceremonyVars >>

\* tryProve(input): the witness builder computes every signal, the hint
\* included, and throws at the first assertion that fails.
TryProve(S) ==
    /\ pc = "idle"
    /\ \E in \in S :
          FullProve(in, "builder", Signals(in, classDiffInvHint(classDiffOf(in))))

\* A prover who does not run the witness builder: classDiffInv is assigned
\* with <--, so he may give it any value; he gets a proof for every
\* assignment that satisfies the constraints, and for no other.
ForgeProve(S) ==
    /\ pc = "idle"
    /\ \E in \in S, inv \in Field :
          LET w == Signals(in, inv)
          IN  Satisfies(w) /\ FullProve(in, "adversary", w)

\* verifyOk = r.ok && await snarkjs.groth16.verify(vKey, r.publicSignals, r.proof)
Verify ==
    /\ pc = "proved"
    /\ verifyOk' = (r.ok /\ Groth16Verify(vKey, r.publicSignals, r.proof))
    /\ pc' = "verified"
    /\ UNCHANGED << input, prover, wit, r, vKey, probe >>
    /\ UNCHANGED << harnessVars, bench, ceremonyVars >>

\* S6 generalised: a copy of the cached public signals with one coordinate
\* replaced, verified with the cached proof and the same key.
TamperAt(pub, i, v) == [ pub EXCEPT ![i] = v ]

Replay ==
    /\ pc = "verified"
    /\ verifyOk
    /\ \E i \in 1 .. nPublic, v \in 0 .. P :
          /\ v # r.publicSignals[i]
          /\ LET tampered == TamperAt(r.publicSignals, i, v)
             IN  probe' = [ kind          |-> "replay",
                            part          |-> i,
                            publicSignals |-> tampered,
                            vKey          |-> vKey,
                            verifyOk      |-> Groth16Verify(vKey, tampered, r.proof) ]
    /\ pc' = "probed"
    /\ UNCHANGED << input, prover, wit, r, vKey, verifyOk >>
    /\ UNCHANGED << harnessVars, bench, ceremonyVars >>

\* S7 generalised: a copy of the key with one constant replaced, verified
\* with the cached proof and the cached public signals.  Parts 0..nPublic
\* are the entries of IC; the two after them are alpha and beta.  (What a
\* change of gamma or delta does depends on cpub or pi_c being the
\* identity, a coincidence of the key's values, and is left out.)
KeyNames == << "alpha", "beta" >>

KeyParts == 0 .. (nPublic + Len(KeyNames))

KeyPart(vk, c) == IF c <= nPublic THEN vk.IC[c] ELSE vk[KeyNames[c - nPublic]]

AlterKey(vk, c, v) ==
    IF c <= nPublic
    THEN [ vk EXCEPT !.IC = [ vk.IC EXCEPT ![c] = v ] ]
    ELSE [ vk EXCEPT ![KeyNames[c - nPublic]] = v ]

KeySubst ==
    /\ pc = "verified"
    /\ verifyOk
    /\ \E c \in KeyParts, v \in Field :
          /\ v # KeyPart(vKey, c)
          /\ LET badVkey == AlterKey(vKey, c, v)
             IN  probe' = [ kind          |-> "key",
                            part          |-> c,
                            publicSignals |-> r.publicSignals,
                            vKey          |-> badVkey,
                            verifyOk      |-> Groth16Verify(badVkey, r.publicSignals, r.proof) ]
    /\ pc' = "probed"
    /\ UNCHANGED << input, prover, wit, r, vKey, verifyOk >>
    /\ UNCHANGED << harnessVars, bench, ceremonyVars >>

\* Proving and verifying, for every assignment.
Next ==
    \/ TryProve(Inputs)
    \/ ForgeProve(Inputs)
    \/ Verify

Spec == Init /\ [][Next]_vars

\* Proving, verifying and the binding probes, for operands of the declared width.
NextBind ==
    \/ TryProve(WidthInputs)
    \/ Verify
    \/ Replay
    \/ KeySubst

SpecBind == InitBind /\ [][NextBind]_vars

\* ======================================================================
\* prove.js: the scenario runner
\* ======================================================================
\* ------------------------------------------------ the scenarios' literals
FreshAge == 1           \* dataAge: "30"
StaleAge == 3           \* dataAge: "100"
DeltaMax == 2           \* deltaMax: "90"
AllergyClass == 1       \* allergyClassId: "2"
MedicationClass == 2    \* medicationClassId: "5"
ForgedSecret == 2       \* doctorSecret: "999"
UntrustedSourceId == 2  \* sourceId: "99"
SliceLen == 6           \* orig.slice(0, -6) + "000000"

\* S1's assignment: the valid baseline
Baseline ==
    [ doctorId             |-> RegDoctorId,
      doctorSecret         |-> RegDoctorSecret,
      authorizedAction     |-> RequiredAction,
      sourceId             |-> TrustedSourceId,
      dataAge              |-> FreshAge,
      allergyClassId       |-> AllergyClass,
      medicationClassId    |-> MedicationClass,
      doctorCredentialHash |-> credHash,
      trustedSourceHash    |-> srcHash,
      requiredAction       |-> RequiredAction,
      deltaMax             |-> DeltaMax,
      outcome              |-> 1 ]

Order == << "S1", "S2", "S3", "S4", "S5a", "S5b", "S6", "S7" >>

\* The blocks that build a fresh witness, and the two that reuse S1's proof.
Fresh  == { "S1", "S2", "S3", "S4", "S5a", "S5b" }
Probes == { "S6", "S7" }

\* The blocks whose verifyOk is r.ok && await snarkjs.groth16.verify(...);
\* in the other fresh blocks it is the constant false.
Verifying == { "S1", "S5a" }

ScenarioInput(s) ==
    CASE s = "S1"  -> Baseline
      [] s = "S2"  -> [ Baseline EXCEPT !.doctorSecret = ForgedSecret ]
      [] s = "S3"  -> [ Baseline EXCEPT !.sourceId = UntrustedSourceId ]
      [] s = "S4"  -> [ Baseline EXCEPT !.dataAge = StaleAge ]
      [] s = "S5a" -> [ Baseline EXCEPT !.medicationClassId = AllergyClass,
                                        !.outcome = 0 ]
      [] s = "S5b" -> [ Baseline EXCEPT !.medicationClassId = AllergyClass ]

\* expectProof and expectVerify of the block's report entry
ExpectProof(s)  == s \in { "S1", "S5a", "S6", "S7" }
ExpectVerify(s) == s \in { "S1", "S5a" }

\* ------------------------------------------------- decimal strings (JSON)
\* A string of decimal digits is the sequence of its digits.
RECURSIVE ToDec(_)
ToDec(n) == IF n < 10 THEN << n >> ELSE Append(ToDec(n \div 10), n % 10)

RECURSIVE FromDec(_)
FromDec(str) ==
    IF str = << >> THEN 0
    ELSE 10 * FromDec(SubSeq(str, 1, Len(str) - 1)) + str[Len(str)]

\* publicSignals as snarkjs returns them, and as its verifier reads them
Stringify(pub)   == [ i \in 1 .. Len(pub) |-> ToDec(pub[i]) ]
Unstringify(pub) == [ i \in 1 .. Len(pub) |-> FromDec(pub[i]) ]

\* verification_key.json: the entries of IC are decimal strings
ExportKey(zkey) == [ zkey EXCEPT !.IC = [ k \in DOMAIN zkey.IC |-> ToDec(zkey.IC[k]) ] ]
ParseKey(vk)    == [ vk EXCEPT !.IC = [ k \in DOMAIN vk.IC |-> FromDec(vk.IC[k]) ] ]

\* snarkjs.groth16.verify on the JSON values
VerifyJson(vk, pub, proof) == Groth16Verify(ParseKey(vk), Unstringify(pub), proof)

\* ------------------------------------------------------ shared objects
\* An array or object lives in the heap under a reference; a variable of
\* the program holds the reference.
vKeyRef == << "main", "vKey" >>

Alloc(h, ref, val) == [ x \in (DOMAIN h) \cup { ref } |-> IF x = ref THEN val ELSE h[x] ]

\* (mutant) const tampered = base.publicSignals
SpreadAliased(ref) == ref

\* [...base.publicSignals]: a new array
SpreadOf(ref) == << "S6", "tampered" >>

\* (mutant) const badVkey = vKey
JsonCopyAliased(ref) == ref

\* JSON.parse(JSON.stringify(vKey)): a new object
JsonCopyOf(ref) == << "S7", "badVkey" >>

\* (mutant) the last coordinate set to "1", whatever it was
FlipOutcomeOne(str) == << 1 >>

\* tampered[tampered.length - 1] === "1" ? "0" : "1"
FlipOutcome(str) == IF str = << 1 >> THEN << 0 >> ELSE << 1 >>

\* tampered[tampered.length - 1] = ...: the array after the assignment
TamperLast(arr) == [ arr EXCEPT ![Len(arr)] = FlipOutcome(@) ]

\* orig.slice(0, -6) + "000000"
Slice0(str, k) == SubSeq(str, 1, Len(str) - k)
Zeros(k) == [ i \in 1 .. k |-> 0 ]
CorruptIC00(orig) == Slice0(orig, SliceLen) \o Zeros(SliceLen)

\* ------------------------------------------------------------ main
\* The old state, for the runs of main that do not use it.
ProveOff ==
    /\ pc = "idle"
    /\ input = None
    /\ prover = "builder"
    /\ wit = None
    /\ r = None
    /\ vKey = Setup(1)
    /\ verifyOk = FALSE
    /\ probe = None

FirstPhase(s) == IF s \in Probes THEN "base" ELSE "prove"

\* The block after block s, or the summary.
NextBlock(s) ==
    LET i == CHOOSE k \in 1 .. Len(Order) : Order[k] = s
    IN  IF i < Len(Order)
        THEN << Order[i + 1], FirstPhase(Order[i + 1]) >>
        ELSE << "end", "summary" >>

\* Lines 50-61.  The wasm, the zkey and verification_key.json are read from
\* disk: they are the artifacts of one ceremony ("groth16"), or whatever
\* else is there ("any"), and then the oracles answer anything.
InitHarness ==
    /\ ProveOff /\ BenchOff /\ CeremonyOff
    /\ hpc = << "S1", "prove" >>
    /\ oracle \in [ mode : { "groth16", "any" },
                    zkey : { Setup(t) : t \in 1 .. MaxTau } ]
    /\ heap = [ x \in { vKeyRef } |-> ExportKey(oracle.zkey) ]
    /\ loc = None
    /\ passed = 0
    /\ report = << >>
    /\ proofCache = << >>
    /\ calls = << >>
    /\ printed = << >>

\* const r = await tryProve({...}): r.publicSignals is a new array
TryProveStep ==
    /\ hpc[2] = "prove"
    /\ LET in  == ScenarioInput(hpc[1])
           w   == Signals(in, classDiffInvHint(classDiffOf(in)))
           ref == << hpc[1], "publicSignals" >>
       IN  \E thrown \in (IF oracle.mode = "groth16" THEN { ~Satisfies(w) } ELSE BOOLEAN) :
              IF thrown
              THEN /\ loc' = [ r |-> [ ok |-> FALSE, error |-> FirstFailure(w) ] ]
                   /\ heap' = heap
              ELSE \E b \in 1 .. MaxBlind :
                   /\ loc' = [ r |-> [ ok            |-> TRUE,
                                       proof         |-> Groth16Prove(oracle.zkey, PublicSignals(w), b),
                                       publicSignals |-> ref ] ]
                   /\ heap' = Alloc(heap, ref, Stringify(PublicSignals(w)))
    /\ hpc' = << hpc[1], "verify" >>
    /\ UNCHANGED << oracle, passed, report, proofCache, calls, printed >>
    /\ UNCHANGED << proveVars, bench, ceremonyVars >>

\* The arguments the block at hpc passes to snarkjs.groth16.verify.
PendingCall ==
    CASE hpc[1] \in Verifying ->
           [ by |-> hpc[1], vKey |-> heap[vKeyRef],
             publicSignals |-> heap[loc.r.publicSignals], proof |-> loc.r.proof ]
      [] hpc[1] = "S6" ->
           [ by |-> hpc[1], vKey |-> heap[vKeyRef],
             publicSignals |-> heap[loc.tampered], proof |-> loc.base.proof ]
      [] hpc[1] = "S7" ->
           [ by |-> hpc[1], vKey |-> heap[loc.badVkey],
             publicSignals |-> heap[loc.base.publicSignals], proof |-> loc.base.proof ]

\* Whether the block at hpc reaches its call of the oracle.
Calling ==
    /\ hpc[2] = "verify"
    /\ \/ hpc[1] \in Probes
       \/ hpc[1] \in Verifying /\ loc.r.ok

\* const verifyOk = [r.ok &&] await snarkjs.groth16.verify(...)
VerifyStep ==
    /\ Calling
    /\ LET c == PendingCall
       IN  \E ans \in (IF oracle.mode = "groth16"
                       THEN { VerifyJson(c.vKey, c.publicSignals, c.proof) }
                       ELSE BOOLEAN) :
              /\ calls' = Append(calls, c @@ [ answer |-> ans ])
              /\ loc' = loc @@ [ verifyOk |-> ans ]
    /\ hpc' = << hpc[1], "record" >>
    /\ UNCHANGED << oracle, heap, passed, report, proofCache, printed >>
    /\ UNCHANGED << proveVars, bench, ceremonyVars >>

\* r.ok && ...: r.ok is false, the oracle is not called
VerifyShortCircuit ==
    /\ hpc[2] = "verify"
    /\ hpc[1] \in Verifying
    /\ ~loc.r.ok
    /\ loc' = loc @@ [ verifyOk |-> FALSE ]
    /\ hpc' = << hpc[1], "record" >>
    /\ UNCHANGED << oracle, heap, passed, report, proofCache, calls, printed >>
    /\ UNCHANGED << proveVars, bench, ceremonyVars >>

\* const verifyOk = false (S2, S3, S4, S5b)
VerifyConst ==
    /\ hpc[2] = "verify"
    /\ hpc[1] \in Fresh \ Verifying
    /\ loc' = loc @@ [ verifyOk |-> FALSE ]
    /\ hpc' = << hpc[1], "record" >>
    /\ UNCHANGED << oracle, heap, passed, report, proofCache, calls, printed >>
    /\ UNCHANGED << proveVars, bench, ceremonyVars >>

\* The oracle throws: main rejects, and main().catch exits with status 1.
VerifyThrows ==
    /\ Calling
    /\ oracle.mode = "any"
    /\ hpc' = << "end", "exit" >>
    /\ UNCHANGED << oracle, heap, loc, passed, report, proofCache, calls, printed >>
    /\ UNCHANGED << proveVars, bench, ceremonyVars >>

\* (mutant) every block counted as passed
ClassifyAlways(s, proofOk, verified) == TRUE

\* const ok = ...: the block's verdict on what it observed
Classify(s, proofOk, verified) ==
    CASE s \in Verifying      -> (proofOk = TRUE /\ verified = TRUE)
      [] s \in Fresh \ Verifying -> (proofOk = FALSE)
      [] s \in Probes         -> (verified = FALSE)

\* (mutant) proofCache[id] = r, whatever ok is
CacheAlways(s, ok, cache, res) == IF s = "S1" THEN [ x \in { s } |-> res ] ELSE cache

\* if (ok) { passed++; proofCache[id] = r; }: S1 only
Cache(s, ok, cache, res) == IF s = "S1" /\ ok THEN [ x \in { s } |-> res ] ELSE cache

\* (mutant) report.unshift(entry)
PushFront(rep, entry) == << entry >> \o rep

\* report.push(entry)
Push(rep, entry) == Append(rep, entry)

\* (mutant) passed++ on every block
CountAlways(ok, n) == n + 1

\* if (ok) passed++
Count(ok, n) == IF ok THEN n + 1 ELSE n

\* if (ok) passed++; printResult(...); report.push({...})
RecordStep ==
    /\ hpc[2] = "record"
    /\ LET s       == hpc[1]
           proofOk == IF s \in Probes THEN TRUE ELSE loc.r.ok
           ok      == Classify(s, proofOk, loc.verifyOk)
       IN  /\ passed' = Count(ok, passed)
           /\ proofCache' = IF s \in Probes THEN proofCache
                            ELSE Cache(s, ok, proofCache, loc.r)
           /\ printed' = Append(printed, [ id |-> s, ok |-> ok, proofOk |-> proofOk,
                                           verifyOk |-> loc.verifyOk ])
           /\ report' = Push(report, [ id |-> s,
                                       expectProof  |-> ExpectProof(s),
                                       expectVerify |-> ExpectVerify(s),
                                       result       |-> ok ])
           /\ hpc' = NextBlock(s)
    /\ loc' = None
    /\ UNCHANGED << oracle, heap, calls >>
    /\ UNCHANGED << proveVars, bench, ceremonyVars >>

\* if (!base) { console.log(SKIP ...) }: nothing is recorded
ProbeSkip ==
    /\ hpc[2] = "base"
    /\ "S1" \notin DOMAIN proofCache
    /\ printed' = Append(printed, [ id |-> hpc[1], skip |-> TRUE ])
    /\ hpc' = NextBlock(hpc[1])
    /\ UNCHANGED << oracle, heap, loc, passed, report, proofCache, calls >>
    /\ UNCHANGED << proveVars, bench, ceremonyVars >>

\* S6, lines 187-188: copy the cached public signals, flip the last one
S6Tamper ==
    /\ hpc = << "S6", "base" >>
    /\ "S1" \in DOMAIN proofCache
    /\ LET base     == proofCache["S1"]
           tampered == SpreadOf(base.publicSignals)
           copied   == Alloc(heap, tampered, heap[base.publicSignals])
       IN  /\ heap' = [ copied EXCEPT ![tampered] = TamperLast(@) ]
           /\ loc' = [ base |-> base, tampered |-> tampered ]
    /\ hpc' = << "S6", "verify" >>
    /\ UNCHANGED << oracle, passed, report, proofCache, calls, printed >>
    /\ UNCHANGED << proveVars, bench, ceremonyVars >>

\* S7, lines 206-208: copy the key, put zeros at the end of IC[0][0]
S7Corrupt ==
    /\ hpc = << "S7", "base" >>
    /\ "S1" \in DOMAIN proofCache
    /\ LET base    == proofCache["S1"]
           badVkey == JsonCopyOf(vKeyRef)
           copied  == Alloc(heap, badVkey, heap[vKeyRef])
       IN  /\ heap' = [ copied EXCEPT ![badVkey].IC[0] = CorruptIC00(@) ]
           /\ loc' = [ base |-> base, badVkey |-> badVkey ]
    /\ hpc' = << "S7", "verify" >>
    /\ UNCHANGED << oracle, passed, report, proofCache, calls, printed >>
    /\ UNCHANGED << proveVars, bench, ceremonyVars >>

resultsRef == << "fs", "test_results.json" >>

\* (mutant) const color = passed > 0 ? green : red
SummaryColorAny(npassed, total) == IF npassed > 0 THEN "green" ELSE "red"

\* const color = passed === total ? green : red
SummaryColor(npassed, total) == IF npassed = total THEN "green" ELSE "red"

\* Lines 218-226: the totals, and test_results.json
Summary ==
    /\ hpc = << "end", "summary" >>
    /\ printed' = Append(printed, [ id |-> "Results", passed |-> passed,
                                    total |-> Len(report),
                                    color |-> SummaryColor(passed, Len(report)) ])
    /\ heap' = Alloc(heap, resultsRef, report)
    /\ hpc' = << "end", "done" >>
    /\ UNCHANGED << oracle, loc, passed, report, proofCache, calls >>
    /\ UNCHANGED << proveVars, bench, ceremonyVars >>

NextHarness ==
    \/ TryProveStep
    \/ VerifyStep
    \/ VerifyShortCircuit
    \/ VerifyConst
    \/ VerifyThrows
    \/ RecordStep
    \/ ProbeSkip
    \/ S6Tamper
    \/ S7Corrupt
    \/ Summary

SpecHarness == InitHarness /\ [][NextHarness]_vars

\* ======================================================================
\* The tampering expressions of S6 and S7, for every string
\* ======================================================================
DigitStrings == UNION { [ 1 .. n -> 0 .. MaxDigit ] : n \in 0 .. MaxLen }

\* base.publicSignals with any last coordinate, and the point IC[0] =
\* [x, y, "1"] with any x.
BenchVectors ==
    { Append([ i \in 1 .. (nPublic - 1) |-> ToDec(Baseline[PublicSignalOrder[i]]) ], str) :
        str \in DigitStrings }

BenchPoints == { << str, ToDec(Setup(1).IC[0]), << 1 >> >> : str \in DigitStrings }

InitTamper ==
    /\ ProveOff /\ HarnessOff /\ CeremonyOff
    /\ bench \in [ expr : { "S6" }, arg : BenchVectors, out : { << >> } ]
                 \cup [ expr : { "S7" }, arg : BenchPoints, out : { << >> } ]

\* Lines 187-188 on their own
BenchS6 ==
    /\ bench.expr = "S6"
    /\ bench.out = << >>
    /\ bench' = [ bench EXCEPT !.out = TamperLast(bench.arg) ]
    /\ UNCHANGED << proveVars, harnessVars, ceremonyVars >>

\* Lines 207-208 on their own: badVkey.IC[0][0] = orig.slice(0, -6) + "000000"
BenchS7 ==
    /\ bench.expr = "S7"
    /\ bench.out = << >>
    /\ bench' = [ bench EXCEPT !.out = [ bench.arg EXCEPT ![1] = CorruptIC00(@) ] ]
    /\ UNCHANGED << proveVars, harnessVars, ceremonyVars >>

NextTamper == BenchS6 \/ BenchS7

SpecTamper == InitTamper /\ [][NextTamper]_vars

\* ======================================================================
\* ceremony.js: the trusted setup
\* ======================================================================
R1cs      == "build/prescription.r1cs"
Wasm      == "build/prescription_js/prescription.wasm"
Pot0      == "build/pot12_0000.ptau"
Pot1      == "build/pot12_0001.ptau"
Pot2      == "build/pot12_0002.ptau"
PotFinal  == "build/pot12_final.ptau"
Zkey0     == "build/prescription_0000.zkey"
Zkey1     == "build/prescription_0001.zkey"
ZkeyFinal == "build/prescription_final.zkey"
VKeyJson  == "verification_key.json"
InputJson == "input.json"
ProofJson == "proof.json"
PublicJson == "public.json"
SolFile   == "PrescriptionVerifier.sol"
LOG_FILE  == "ceremony_log.txt"

Files == { R1cs, Wasm, Pot0, Pot1, Pot2, PotFinal, Zkey0, Zkey1, ZkeyFinal,
           VKeyJson, InputJson, ProofJson, PublicJson, SolFile, LOG_FILE }

\* A file: the step of this run that wrote it ("old": an earlier run;
\* "none": no such file), whether it is what its verification accepts, and
\* for a zkey the proving key and the verification key it holds.
Absent  == [ from |-> "none", ok |-> FALSE, key |-> None ]
OldFile == [ from |-> "old", ok |-> TRUE, key |-> None ]
Written(step, ok, key) == [ from |-> step, ok |-> ok, key |-> key ]

\* The steps, as the code performs them.
CodeOrder ==
    << "1 compile", "1 r1cs info",
       "2a new accumulator", "2b contribute", "2c contribute", "2d verify", "2e prepare phase2",
       "3a setup", "3b contribute", "3c contribute", "3d verify", "3e export verification key",
       "4 compute inputs", "5 prove", "6 verify", "7 export solidity verifier", "write log" >>

After(step) ==
    LET i == CHOOSE k \in 1 .. Len(CodeOrder) : CodeOrder[k] = step
    IN  IF i < Len(CodeOrder) THEN CodeOrder[i + 1] ELSE "done"

\* Lines 51-55: the build directory holds nothing, or an earlier run's files.
InitCeremony ==
    /\ ProveOff /\ HarnessOff /\ BenchOff
    /\ cpc = "1 compile"
    /\ lines = << "TRUSTED SETUP CEREMONY" >>
    /\ \E old \in BOOLEAN : files = [ f \in Files |-> IF old THEN OldFile ELSE Absent ]
    /\ cer = [ started |-> TRUE ]
    /\ trace = << >>

\* One step: it reads `reads`, which are there, writes `writes` with the
\* content `out`, logs `msgs`, and its result is `ok`.
Perform(step, reads, writes, out, msgs, ok) ==
    /\ cpc = step
    /\ \A f \in reads : files[f].from # "none"
    /\ files' = [ f \in Files |-> IF f \in writes THEN out ELSE files[f] ]
    /\ lines' = lines \o msgs
    /\ trace' = Append(trace, [ step   |-> step,
                                reads  |-> { << f, files[f].from >> : f \in reads },
                                writes |-> writes,
                                ok     |-> ok ])
    /\ cpc' = After(step)
    /\ UNCHANGED << proveVars, harnessVars, bench >>

\* save(): fs.writeFileSync(LOG_FILE, lines.join("\n") + "\n")
Save(fs, log) == [ fs EXCEPT ![LOG_FILE] = [ from |-> "save", ok |-> TRUE, key |-> log ] ]

\* Lines 65-67: circom writes the r1cs and the wasm
Step1Compile ==
    /\ Perform("1 compile", { }, { R1cs, Wasm }, Written("1 compile", TRUE, None),
               << >>, TRUE)
    /\ UNCHANGED cer

\* Lines 68-76: execSync throws.  Without an r1cs on disk main saves the
\* log and exits; with one (an earlier run's) it goes on.
Step1CompileFails ==
    /\ cpc = "1 compile"
    /\ trace' = Append(trace, [ step |-> "1 compile", reads |-> { }, writes |-> { },
                                ok |-> FALSE ])
    /\ IF files[R1cs].from = "none"
       THEN /\ lines' = lines \o << "STDERR", "ERROR: Compilation failed. Aborting." >>
            /\ files' = Save(files, lines')
            /\ cpc' = "exit"
       ELSE /\ lines' = lines \o << "STDERR" >>
            /\ files' = files
            /\ cpc' = After("1 compile")
    /\ UNCHANGED cer
    /\ UNCHANGED << proveVars, harnessVars, bench >>

\* Lines 78-86
Step1R1csInfo ==
    /\ Perform("1 r1cs info", { R1cs }, { }, Absent, << "R1CS statistics" >>, TRUE)
    /\ UNCHANGED cer

\* Lines 93-100
Step2aNewAccumulator ==
    /\ Perform("2a new accumulator", { }, { Pot0 },
               Written("2a new accumulator", TRUE, None), << >>, TRUE)
    /\ UNCHANGED cer

\* Lines 103-110: the contribution is well formed, or it is not
Step2bContribute ==
    /\ \E good \in BOOLEAN :
          Perform("2b contribute", { Pot0 }, { Pot1 },
                  Written("2b contribute", files[Pot0].ok /\ good, None), << >>, TRUE)
    /\ UNCHANGED cer

\* Lines 113-120
Step2cContribute ==
    /\ \E good \in BOOLEAN :
          Perform("2c contribute", { Pot1 }, { Pot2 },
                  Written("2c contribute", files[Pot1].ok /\ good, None), << >>, TRUE)
    /\ UNCHANGED cer

\* Lines 123-125: the answer is logged
Step2dVerify ==
    /\ Perform("2d verify", { Pot2 }, { }, Absent,
               << IF files[Pot2].ok THEN "Valid: true" ELSE "Valid: false" >>,
               files[Pot2].ok)
    /\ cer' = cer @@ [ ptauValid |-> files[Pot2].ok ]

\* Lines 128-133
Step2ePrepare ==
    /\ Perform("2e prepare phase2", { Pot2 }, { PotFinal },
               Written("2e prepare phase2", files[Pot2].ok, None), << >>, TRUE)
    /\ UNCHANGED cer

\* Lines 140-146: the zkey before any contribution
Step3aNewZKey ==
    /\ Perform("3a setup", { R1cs, PotFinal }, { Zkey0 },
               Written("3a setup", TRUE, [ pk |-> Setup(1), vk |-> Setup(1) ]), << >>, TRUE)
    /\ UNCHANGED cer

\* A contribution re-randomises the key with toxic waste t; a well-formed
\* one changes the proving key and the verification key together.
Contributed(step, prev, t, tv) ==
    Written(step, prev.ok /\ t = tv, [ pk |-> Setup(t), vk |-> Setup(tv) ])

\* Lines 149-156
Step3bContribute ==
    /\ \E t, tv \in 1 .. MaxTau :
          Perform("3b contribute", { Zkey0 }, { Zkey1 },
                  Contributed("3b contribute", files[Zkey0], t, tv), << >>, TRUE)
    /\ UNCHANGED cer

\* Lines 159-166
Step3cContribute ==
    /\ \E t, tv \in 1 .. MaxTau :
          Perform("3c contribute", { Zkey1 }, { ZkeyFinal },
                  Contributed("3c contribute", files[Zkey1], t, tv), << >>, TRUE)
    /\ UNCHANGED cer

\* Lines 169-175: the answer is logged
Step3dVerify ==
    /\ Perform("3d verify", { R1cs, PotFinal, ZkeyFinal }, { }, Absent,
               << IF files[ZkeyFinal].ok THEN "Valid: true" ELSE "Valid: false" >>,
               files[ZkeyFinal].ok)
    /\ cer' = cer @@ [ zkeyValid |-> files[ZkeyFinal].ok ]

\* Lines 178-186
Step3eExport ==
    /\ Perform("3e export verification key", { ZkeyFinal }, { VKeyJson },
               Written("3e export verification key", TRUE, None),
               << "Verification key (summary):" >>, TRUE)
    /\ cer' = cer @@ [ vKey |-> ExportKey(files[ZkeyFinal].key.vk) ]

\* Lines 191-228
Step4Inputs ==
    /\ Perform("4 compute inputs", { }, { InputJson },
               Written("4 compute inputs", TRUE, None), << "input.json saved." >>, TRUE)
    /\ cer' = cer @@ [ input |-> Baseline ]

\* Lines 233-251: fullProve throws when an assertion of the circuit fails
Step5FullProve ==
    /\ cpc = "5 prove"
    /\ LET w == Signals(cer.input, classDiffInvHint(classDiffOf(cer.input)))
       IN  /\ Satisfies(w)
           /\ \E b \in 1 .. MaxBlind :
                 cer' = cer @@ [ proof |-> Groth16Prove(files[ZkeyFinal].key.pk,
                                                       PublicSignals(w), b),
                                 publicSignals |-> Stringify(PublicSignals(w)) ]
    /\ Perform("5 prove", { Wasm, ZkeyFinal }, { ProofJson, PublicJson },
               Written("5 prove", TRUE, None),
               << "Witness generated and proof computed." >>, TRUE)

\* Lines 256-265: a proof that does not verify is logged as an error
Step6Verify ==
    /\ cpc = "6 verify"
    /\ LET isValid == VerifyJson(cer.vKey, cer.publicSignals, cer.proof)
       IN  /\ cer' = cer @@ [ isValid |-> isValid ]
           /\ Perform("6 verify", { }, { }, Absent,
                      IF isValid
                      THEN << "Proof valid: true", "SUCCESS: Zero-knowledge proof is valid." >>
                      ELSE << "Proof valid: false", "ERROR: Proof verification failed!" >>,
                      isValid)

\* Lines 270-281
Step7ExportSolidity ==
    /\ Perform("7 export solidity verifier", { ZkeyFinal }, { SolFile },
               Written("7 export solidity verifier", TRUE, None),
               << "PrescriptionVerifier.sol written." >>, TRUE)
    /\ UNCHANGED cer

\* Lines 286-309: the summary, and save()
StepWriteLog ==
    /\ cpc = "write log"
    /\ lines' = lines \o << "CEREMONY COMPLETE", "Ceremony finished" >>
    /\ files' = Save(files, lines')
    /\ trace' = Append(trace, [ step |-> "write log", reads |-> { },
                                writes |-> { LOG_FILE }, ok |-> TRUE ])
    /\ cpc' = After("write log")
    /\ UNCHANGED cer
    /\ UNCHANGED << proveVars, harnessVars, bench >>

\* Lines 312-315: a call of snarkjs or fs throws (a file is missing, the
\* disk is full, ...): main rejects, the error is printed and the process
\* exits with status 1.
StepThrows ==
    /\ cpc \in { CodeOrder[k] : k \in 2 .. Len(CodeOrder) }
    /\ cpc' = "crashed"
    /\ UNCHANGED << lines, files, cer, trace >>
    /\ UNCHANGED << proveVars, harnessVars, bench >>

NextCeremony ==
    \/ Step1Compile
    \/ Step1CompileFails
    \/ Step1R1csInfo
    \/ Step2aNewAccumulator
    \/ Step2bContribute
    \/ Step2cContribute
    \/ Step2dVerify
    \/ Step2ePrepare
    \/ Step3aNewZKey
    \/ Step3bContribute
    \/ Step3cContribute
    \/ Step3dVerify
    \/ Step3eExport
    \/ Step4Inputs
    \/ Step5FullProve
    \/ Step6Verify
    \/ Step7ExportSolidity
    \/ StepWriteLog
    \/ StepThrows

SpecCeremony == InitCeremony /\ [][NextCeremony]_vars

\* ======================================================================
\* Properties
\* ======================================================================
Attempted == input # None
Proved    == pc \in { "proved", "verified", "probed" }

\* Checks 1, 2 and 4 as statements about the inputs.
HardMatch(in) ==
    /\ Poseidon2(in.doctorId, in.doctorSecret) = in.doctorCredentialHash
    /\ Poseidon1(in.sourceId) = in.trustedSourceHash
    /\ in.authorizedAction = in.requiredAction

\* (dataAge < deltaMax) AND (allergyClassId != medicationClassId), over the integers
ExpectedOutcome(in) ==
    IF in.dataAge < in.deltaMax /\ in.allergyClassId # in.medicationClassId
    THEN 1 ELSE 0

OperandsInWidth(in) == InWidth(in.dataAge) /\ InWidth(in.deltaMax)

\* C1 (as claimed): whenever a proof was produced, the declared outcome is
\* freshOk * noContraindication; outcome 1 is never proved with
\* dataAge >= deltaMax or equal classes, and outcome 0 is never proved with
\* fresh data and different classes.
C1_OutcomeIntegrity ==
    Proved =>
       /\ input.outcome = wit.freshOk * wit.noContraindication
       /\ (input.dataAge >= input.deltaMax
             \/ input.allergyClassId = input.medicationClassId)
            => input.outcome # 1
       /\ (input.dataAge < input.deltaMax
             /\ input.allergyClassId # input.medicationClassId)
            => input.outcome # 0

\* C1, for operands of the comparator's width: the same statement, which
\* holds there.
C1_OutcomeIntegrityInWidth ==
    (Proved /\ OperandsInWidth(input)) =>
       /\ input.outcome = wit.freshOk * wit.noContraindication
       /\ input.outcome = ExpectedOutcome(input)

\* C2: an assignment whose credential, source or action does not match is
\* never proved, whatever outcome it declares: every attempt on it fails.
C2_HardCheckSoundness ==
    (Attempted /\ ~HardMatch(input)) => pc = "failed"

C2_Witness ==
    /\ pc = "failed"
    /\ ~HardMatch(input)
    /\ input.outcome = 0
    /\ input.authorizedAction # input.requiredAction
    /\ r.error = "line 110"

\* C3 (as claimed): for every assignment that matches on credential, source
\* and action and declares the outcome the soft checks have over the
\* integers, the witness builder succeeds and the proof verifies.
C3_Completeness ==
    (Attempted /\ prover = "builder" /\ HardMatch(input)
       /\ input.outcome = ExpectedOutcome(input))
    => /\ pc # "failed"
       /\ pc = "verified" => verifyOk

\* C3 (amended): the same, for dataAge and deltaMax of the comparator's width.
C3_CompletenessInWidth ==
    (Attempted /\ prover = "builder" /\ HardMatch(input)
       /\ OperandsInWidth(input)
       /\ input.outcome = ExpectedOutcome(input))
    => /\ pc # "failed"
       /\ pc = "verified" => verifyOk

C3_Witness ==
    /\ pc = "verified"
    /\ verifyOk
    /\ prover = "builder"
    /\ OperandsInWidth(input)
    /\ input.outcome = 1
    /\ wit.classDiff # 0

\* C4 (as claimed): in every satisfying witness, for operands inside or
\* outside the comparator's width, freshOk = 1 only if dataAge < deltaMax
\* over the integers.
C4_ComparatorRangeChecked ==
    Proved => (wit.freshOk = 1 => input.dataAge < input.deltaMax)

\* C5: for operands of the comparator's width, dataAge = deltaMax - 1 is
\* fresh, dataAge = deltaMax is not, and no dataAge > deltaMax is.
C5_FreshnessBoundary ==
    (Proved /\ OperandsInWidth(input)) =>
       /\ input.dataAge = input.deltaMax - 1 => wit.freshOk = 1
       /\ input.dataAge = input.deltaMax => wit.freshOk = 0
       /\ input.dataAge > input.deltaMax => wit.freshOk = 0

C5_Witness ==
    /\ Proved
    /\ input.dataAge = input.deltaMax
    /\ input.deltaMax > 0
    /\ wit.freshOk = 0
    /\ input.outcome = 0

\* C6: in every satisfying witness, whatever value classDiffInv has,
\* classDiff # 0 gives isZero = 0 and noContraindication = 1, and
\* classDiff = 0 gives isZero = 1 and noContraindication = 0.
C6_IsZeroSound ==
    Proved =>
       /\ wit.classDiff # 0 => (wit.isZero = 0 /\ wit.noContraindication = 1)
       /\ wit.classDiff = 0 => (wit.isZero = 1 /\ wit.noContraindication = 0)

C6_Witness ==
    /\ Proved
    /\ prover = "adversary"
    /\ wit.classDiffInv # classDiffInvHint(wit.classDiff)
    /\ wit.isZero = 1

\* C7 (as claimed): for every assignment that passes the hard checks with
\* equal classes and declares outcome 0, the witness builder succeeds and
\* the proof verifies.
C7_HonestReject ==
    (Attempted /\ prover = "builder" /\ HardMatch(input)
       /\ input.allergyClassId = input.medicationClassId
       /\ input.outcome = 0)
    => /\ pc # "failed"
       /\ pc = "verified" => verifyOk

\* C7 (amended): the same, for dataAge and deltaMax of the comparator's
\* width; the builder's hint is 0 and isZero is 1 there.
C7_HonestRejectInWidth ==
    (Attempted /\ prover = "builder" /\ HardMatch(input)
       /\ OperandsInWidth(input)
       /\ input.allergyClassId = input.medicationClassId
       /\ input.outcome = 0)
    => /\ pc # "failed"
       /\ wit.classDiffInv = 0 /\ wit.isZero = 1
       /\ pc = "verified" => verifyOk

C7_Witness ==
    /\ pc = "verified"
    /\ verifyOk
    /\ prover = "builder"
    /\ input.allergyClassId = input.medicationClassId
    /\ input.dataAge < input.deltaMax
    /\ input.outcome = 0

C10_PublicVectorOrder ==
    Proved =>
       r.publicSignals = << input.doctorCredentialHash, input.trustedSourceHash,
                            input.requiredAction, input.deltaMax, input.outcome >>

C10_Witness ==
    /\ Proved
    /\ r.publicSignals[nPublic] = 0
    /\ input.outcome = 0
    /\ input.deltaMax # 0

\* The satisfying assignments, by the values of their five public signals.
PublicOf(in) ==
    << in.doctorCredentialHash, in.trustedSourceHash, in.requiredAction,
       in.deltaMax, in.outcome >>

SatisfyingInputs ==
    { in : in \in { x \in Inputs : Satisfies(Signals(x, classDiffInvHint(classDiffOf(x)))) } }

SatisfyingByPublic ==
    { << pub, { in : in \in { x \in SatisfyingInputs : PublicOf(x) = pub } } >> :
        pub \in { PublicOf(in) : in \in SatisfyingInputs } }

\* The satisfying assignments with the public signals of `in`.
Twins(in) == UNION { p[2] : p \in { q \in SatisfyingByPublic : q[1] = PublicOf(in) } }

DifferOnPrivate(a, b) ==
    \E i \in 1 .. Len(PrivateSignals) : a[PrivateSignals[i]] # b[PrivateSignals[i]]

\* What the proof of a satisfying assignment is emitted with.
EmittedWith(in) == PublicSignals(Signals(in, classDiffInvHint(classDiffOf(in))))

\* C11: the public vector emitted with a proof has five coordinates, and
\* every satisfying assignment with the same five public signals and other
\* private signals is emitted with the same vector.
C11_PrivateSignalsHidden ==
    Proved =>
       /\ Len(r.publicSignals) = 5
       /\ \A in2 \in Twins(input) :
             DifferOnPrivate(input, in2) => EmittedWith(in2) = r.publicSignals

C11_Witness ==
    /\ Proved
    /\ \E in2 \in Twins(input) :
          /\ in2.dataAge # input.dataAge
          /\ in2.allergyClassId # input.allergyClassId
          /\ in2.medicationClassId # input.medicationClassId
          /\ EmittedWith(in2) = r.publicSignals

\* ---------------------------------------------------------- the harness
Finished == hpc = << "end", "done" >>

\* What printResult printed, block by block: (ok, proof generated, verified).
Observed == SelectSeq(printed, LAMBDA p : "ok" \in DOMAIN p)

\* C12: the report has one entry for each block that printed a result; the
\* entry's result is true exactly when the (proof generated, verified) pair
\* the block observed is its (expectProof, expectVerify) pair; and passed
\* counts the entries whose result is true, and no other.
C12_Classification ==
    /\ Len(report) = Len(Observed)
    /\ \A i \in 1 .. Len(report) :
          /\ report[i].id = Observed[i].id
          /\ report[i].result = Observed[i].ok
          /\ report[i].result =
                ( Observed[i].proofOk = report[i].expectProof
                  /\ Observed[i].verifyOk = report[i].expectVerify )
    /\ passed = Cardinality({ i \in 1 .. Len(report) : report[i].result })

C12_Witness ==
    /\ Finished
    /\ \E i, j, k \in 1 .. Len(report) :
          /\ report[i].id = "S2" /\ Observed[i].proofOk /\ ~report[i].result
          /\ report[j].id = "S6" /\ Observed[j].verifyOk /\ ~report[j].result
          /\ report[k].id = "S1" /\ report[k].result
    /\ passed < Len(report)

\* C13 (as claimed): when main has printed its summary, the report has one
\* entry for each of S1, S2, S3, S4, S5a, S5b, S6, S7, in this order, and
\* the total printed is 8.
C13_EveryScenarioReported ==
    Finished =>
       /\ [ i \in 1 .. Len(report) |-> report[i].id ] = Order
       /\ printed[Len(printed)].total = 8

\* C20 (as claimed): every block that builds a fresh witness and printed
\* "proof generated: true" called the verification oracle before it printed,
\* and the verified flag it printed is the oracle's answer.
C20_VerifyBeforeClassify ==
    \A i \in 1 .. Len(Observed) :
       (Observed[i].id \in Fresh /\ Observed[i].proofOk) =>
          \E k \in 1 .. Len(calls) :
             /\ calls[k].by = Observed[i].id
             /\ calls[k].answer = Observed[i].verifyOk

\* The calls of the verification oracle made by block s.
CallsBy(s) == SelectSeq(calls, LAMBDA c : c.by = s)

Cached == "S1" \in DOMAIN proofCache

\* C16: S6 and S7 run after S1's entry is in the report; S1's result is
\* cached only when S1 both proved and verified; every call of the oracle by
\* S6 or S7 passes the cached proof and the cached public vector (S6: its
\* tampered copy); and when S1 did not pass, S6 and S7 make no call.
C16_ProbeScheduling ==
    /\ hpc[1] \in Probes => (Len(report) >= 1 /\ report[1].id = "S1")
    /\ Cached =>
          /\ report[1].id = "S1" /\ report[1].result
          /\ Observed[1].proofOk /\ Observed[1].verifyOk
          /\ CallsBy("S1")[1].proof = proofCache["S1"].proof
    /\ \A k \in 1 .. Len(calls) :
          calls[k].by \in Probes =>
             /\ Cached
             /\ calls[k].proof = proofCache["S1"].proof
             /\ calls[k].by = "S7" =>
                   calls[k].publicSignals = heap[proofCache["S1"].publicSignals]
             /\ calls[k].by = "S6" =>
                   calls[k].publicSignals = TamperLast(heap[proofCache["S1"].publicSignals])
    /\ (Len(report) >= 1 /\ ~report[1].result) =>
          \A k \in 1 .. Len(calls) : calls[k].by \notin Probes

C16_Witness ==
    /\ Finished
    /\ Cached
    /\ Len(CallsBy("S6")) = 1
    /\ Len(CallsBy("S7")) = 1
    /\ Len(report) = Len(Order)

\* C18: the loaded verification key is never changed; the cached public
\* vector and proof stay the ones S1 verified; S7 verifies S1's proof with
\* S1's own public vector; and every call but S7's passes the loaded key.
C18_CopyThenMutate ==
    /\ heap[vKeyRef] = ExportKey(oracle.zkey)
    /\ Cached =>
          /\ heap[proofCache["S1"].publicSignals] = CallsBy("S1")[1].publicSignals
          /\ proofCache["S1"].proof = CallsBy("S1")[1].proof
    /\ \A k \in 1 .. Len(calls) :
          /\ calls[k].by = "S7" =>
                /\ calls[k].publicSignals = CallsBy("S1")[1].publicSignals
                /\ calls[k].proof = CallsBy("S1")[1].proof
          /\ calls[k].by # "S7" => calls[k].vKey = ExportKey(oracle.zkey)

C18_Witness ==
    /\ Finished
    /\ Len(CallsBy("S6")) = 1
    /\ Len(CallsBy("S7")) = 1
    /\ CallsBy("S6")[1].publicSignals # heap[proofCache["S1"].publicSignals]
    /\ CallsBy("S7")[1].vKey # heap[vKeyRef]
    /\ CallsBy("S7")[1].publicSignals = heap[proofCache["S1"].publicSignals]

\* ------------------------------------------- the tampering expressions
\* C17 (as claimed): whatever string IC[0][0] is, the key S7 verifies
\* against differs from the loaded key: the string with its last six
\* characters replaced by "000000" is another string.
C17_KeyAlwaysAltered ==
    (bench.expr = "S7" /\ bench.out # << >>) => bench.out # bench.arg

\* C19: whatever the last coordinate of S1's public vector is, the tampered
\* vector has the length of the original, its coordinates but the last, and
\* another last coordinate.
C19_OneFieldMutated ==
    (bench.expr = "S6" /\ bench.out # << >>) =>
       /\ Len(bench.out) = Len(bench.arg)
       /\ \A i \in 1 .. (Len(bench.arg) - 1) : bench.out[i] = bench.arg[i]
       /\ bench.out[Len(bench.arg)] # bench.arg[Len(bench.arg)]

C19_Witness ==
    /\ bench.expr = "S6"
    /\ bench.out # << >>
    /\ bench.arg[nPublic] = << 1, 0 >>
    /\ bench.out[nPublic] = << 1 >>

\* --------------------------------------------------------- the ceremony
\* A failed compilation, or a verification of the accumulator or of the
\* zkey that answered false.
SetupFailedAt(i) ==
    /\ trace[i].step \in { "1 compile", "2d verify", "3d verify" }
    /\ ~trace[i].ok

Downstream ==
    { "3e export verification key", "5 prove", "6 verify", "7 export solidity verifier" }

\* C14 (as claimed): after a failed compilation, or a verification of the
\* accumulator or of the zkey that answered false, the ceremony exports no
\* verification key, proves nothing, verifies nothing and exports no
\* Solidity verifier.
C14_SetupFailureFatal ==
    \A i, j \in 1 .. Len(trace) :
       (i < j /\ SetupFailedAt(i)) => trace[j].step \notin Downstream

\* The order README documents: the steps of the code but the r1cs statistics.
DocumentedOrder == SelectSeq(CodeOrder, LAMBDA st : st # "1 r1cs info")

StepsDone == [ i \in 1 .. Len(trace) |-> trace[i].step ]

\* Every file a step read was written by an earlier step of this run.
ReadsProduced ==
    \A j \in 1 .. Len(trace) :
       \A rd \in trace[j].reads :
          \E i \in 1 .. (j - 1) : rd[1] \in trace[i].writes /\ rd[2] = trace[i].step

\* C15 (as claimed): in a run that completes, the steps are the documented
\* ones in the documented order, and every file a step reads was written by
\* an earlier step of the run.
C15_CeremonyOrdering ==
    cpc = "done" =>
       /\ SelectSeq(StepsDone, LAMBDA st : st # "1 r1cs info") = DocumentedOrder
       /\ ReadsProduced

\* C15, for the runs whose compilation succeeded: the same statement.
C15_CeremonyOrderingCompiled ==
    (cpc = "done" /\ trace[1].ok) =>
       /\ SelectSeq(StepsDone, LAMBDA st : st # "1 r1cs info") = DocumentedOrder
       /\ ReadsProduced

\* ------------------------------------------- the harness, error handling
\* Block i of the report printed "proof generated: false": tryProve caught
\* what fullProve threw.
ThrownAt(i) == Observed[i].id \in Fresh /\ ~Observed[i].proofOk

Recorded(s) == \E j \in 1 .. Len(report) : report[j].id = s

\* The blocks of main after block s.
LaterThan(s) ==
    LET i == CHOOSE k \in 1 .. Len(Order) : Order[k] = s
    IN  { Order[k] : k \in (i + 1) .. Len(Order) }

\* C21 (as claimed): a block whose tryProve returned a failure is recorded
\* with the verdict its expectation gives (true exactly when no proof was
\* expected), and when main has printed its summary every later block has
\* run and is in the report that was written.
C21_ViolationLocal ==
    /\ \A i \in 1 .. Len(Observed) :
          ThrownAt(i) => report[i].result = ~report[i].expectProof
    /\ Finished =>
          /\ heap[resultsRef] = report
          /\ \A i \in 1 .. Len(Observed) :
                ThrownAt(i) => \A s \in LaterThan(Observed[i].id) : Recorded(s)

\* C21, for the blocks that build a fresh witness: the same statement with
\* "every later block that calls tryProve"; S6 and S7 are recorded when S1
\* passed.
C21_ViolationLocalFresh ==
    /\ \A i \in 1 .. Len(Observed) :
          ThrownAt(i) => report[i].result = ~report[i].expectProof
    /\ Finished =>
          /\ heap[resultsRef] = report
          /\ \A i \in 1 .. Len(Observed) :
                ThrownAt(i) =>
                   \A s \in LaterThan(Observed[i].id) :
                      (s \in Fresh \/ Cached) => Recorded(s)

\* ------------------------------------------------ the circuit, stale data
\* C22: for every assignment that passes the hard checks, has dataAge and
\* deltaMax of the comparator's width and dataAge >= deltaMax, and declares
\* outcome 0, the witness builder succeeds with freshOk = 0 whatever the
\* two classes are, and the proof verifies.
C22_StaleHonestReject ==
    (Attempted /\ prover = "builder" /\ HardMatch(input)
       /\ OperandsInWidth(input)
       /\ input.dataAge >= input.deltaMax
       /\ input.outcome = 0)
    => /\ pc # "failed"
       /\ Proved => (wit.freshOk = 0 /\ wit.computedOutcome = 0)
       /\ pc = "verified" => verifyOk

C22_Witness ==
    /\ pc = "verified"
    /\ verifyOk
    /\ prover = "builder"
    /\ HardMatch(input)
    /\ OperandsInWidth(input)
    /\ input.dataAge > input.deltaMax
    /\ input.allergyClassId # input.medicationClassId
    /\ input.outcome = 0

\* Stale data with equal classes is proved as well.
C22_WitnessEqualClasses ==
    /\ pc = "verified"
    /\ verifyOk
    /\ prover = "builder"
    /\ OperandsInWidth(input)
    /\ input.dataAge >= input.deltaMax
    /\ input.allergyClassId = input.medicationClassId
    /\ input.outcome = 0

\* ---------------------------------------------- the circuit, bit signals
Bit == { 0, 1 }

\* C24: in every satisfying witness, the builder's or an adversary's,
\* freshOk, isZero, noContraindication, computedOutcome and the declared
\* outcome are 0 or 1; an attempt that declares any other outcome fails.
C24_BooleanSignals ==
    /\ Proved =>
          /\ wit.freshOk \in Bit
          /\ wit.isZero \in Bit
          /\ wit.noContraindication \in Bit
          /\ wit.computedOutcome \in Bit
          /\ input.outcome \in Bit
          /\ r.publicSignals[nPublic] \in Bit
    /\ (Attempted /\ input.outcome \notin Bit) => pc = "failed"

\* An assignment that passes every other check and declares outcome 2 is
\* stopped by the last constraint.
C24_Witness ==
    /\ pc = "failed"
    /\ input.outcome \notin Bit
    /\ HardMatch(input)
    /\ r.error = "line 157"

\* An adversary's witness with a free classDiffInv still has bit signals.
C24_WitnessAdversary ==
    /\ Proved
    /\ prover = "adversary"
    /\ wit.classDiffInv # classDiffInvHint(wit.classDiff)
    /\ wit.computedOutcome = 0
    /\ input.outcome = 0

\* ------------------------------------------------ the harness, the report
Ids(rep) == [ i \in 1 .. Len(rep) |-> rep[i].id ]

PositionIn(s) == CHOOSE k \in 1 .. Len(Order) : Order[k] = s

\* The ids are distinct blocks of main, in the order of the blocks.
InBlockOrder(ids) ==
    /\ \A i \in 1 .. Len(ids) : \E k \in 1 .. Len(Order) : Order[k] = ids[i]
    /\ \A i, j \in 1 .. Len(ids) : i < j => PositionIn(ids[i]) < PositionIn(ids[j])

\* C23: every step leaves the entries already in the report where they
\* are and as they are (the report before the step is a prefix of the
\* report after it), and the ids of the report are in the order S1, S2, S3,
\* S4, S5a, S5b, S6, S7 restricted to the blocks recorded.
C23_ReportAppendOnly ==
    [][ /\ Len(report') >= Len(report)
        /\ SubSeq(report', 1, Len(report)) = report
        /\ InBlockOrder(Ids(report')) ]_vars

\* A run that recorded S1..S5b and skipped S6 and S7, and a run that recorded
\* all eight.
C23_Witness ==
    /\ Finished
    /\ Ids(report) = SubSeq(Order, 1, 6)
    /\ Ids(heap[resultsRef]) = Ids(report)

C23_WitnessAll ==
    /\ Finished
    /\ Ids(report) = Order

C25_WitnessGreen ==
    /\ Finished
    /\ printed[Len(printed)].color = "green"
    /\ passed = 8

\* ------------------------------------------- the ceremony, error handling
Logged(msg) == \E i \in 1 .. Len(lines) : lines[i] = msg

Exported == files[SolFile].from = "7 export solidity verifier"

\* C26 (as claimed): the Solidity verifier is exported and "CEREMONY
\* COMPLETE" is logged only in runs whose groth16.verify answered true; a
\* run whose answer was false does not reach the end of main.
C26_CompleteOnlyIfVerified ==
    /\ (Exported \/ Logged("CEREMONY COMPLETE")) => cer.isValid
    /\ ("isValid" \in DOMAIN cer /\ ~cer.isValid) => cpc # "done"

\* C27 (as claimed): when the process has exited (the end of main, the
\* compile-failure abort, or the catch of main) the log file holds every
\* line logged.
Exited == cpc \in { "done", "exit", "crashed" }

C27_LogAlwaysSaved ==
    Exited => /\ files[LOG_FILE].from = "save"
              /\ files[LOG_FILE].key = lines

\* C27, for the two paths that call save(): the end of main and the
\* compile-failure abort.
C27_LogSavedUnlessThrown ==
    cpc \in { "done", "exit" } =>
       /\ files[LOG_FILE].from = "save"
       /\ files[LOG_FILE].key = lines

=============================================================================
